---- MODULE Spec2Model ----
(***************************************************************************)
(* Rustic-HTTP (src/src/main.rs): a thread-per-connection HTTP/1.1 server. *)
(* Each connection reads one request from its byte stream, routes it       *)
(* (echo, user-agent, static files), optionally gzip-encodes the body and  *)
(* writes one response.  Byte strings are TLA+ strings, one character per  *)
(* byte; the character BadByte stands for a byte that is not valid UTF-8.  *)
(***************************************************************************)
EXTENDS Integers, Sequences, FiniteSets, TLC

(***************************************************************************)
(* Byte and string helpers (Rust std operations used by the source).       *)
(***************************************************************************)
BadByte == "^"

Ch(s, i) == SubSeq(s, i, i)

From(s, i) == SubSeq(s, i, Len(s))

\* str::starts_with
StartsWith(s, p) == Len(s) >= Len(p) /\ SubSeq(s, 1, Len(p)) = p

\* char::is_whitespace, restricted to the ASCII whitespace bytes
IsWs(c) == c \in {" ", "\t", "\r", "\n"}

\* String::from_utf8 succeeds
ValidUtf8(s) == \A i \in 1..Len(s) : Ch(s, i) # BadByte

\* position of the first occurrence of the one-byte pattern c at or after i, 0 if none
RECURSIVE Find(_, _, _)
Find(s, c, i) ==
  IF i > Len(s) THEN 0
  ELSE IF Ch(s, i) = c THEN i
  ELSE Find(s, c, i + 1)

RECURSIVE TrimStart(_)
TrimStart(s) ==
  IF Len(s) > 0 /\ IsWs(Ch(s, 1)) THEN TrimStart(From(s, 2)) ELSE s

RECURSIVE TrimEnd(_)
TrimEnd(s) ==
  IF Len(s) > 0 /\ IsWs(Ch(s, Len(s))) THEN TrimEnd(SubSeq(s, 1, Len(s) - 1)) ELSE s

\* str::trim
Trim(s) == TrimEnd(TrimStart(s))

\* length of the leading run of non-whitespace bytes of s
RECURSIVE TokenLen(_, _)
TokenLen(s, i) ==
  IF i > Len(s) \/ IsWs(Ch(s, i)) THEN i - 1 ELSE TokenLen(s, i + 1)

\* str::split_whitespace, collected into a sequence of tokens
RECURSIVE SplitWhitespace(_)
SplitWhitespace(s) ==
  LET t == TrimStart(s) IN
  IF t = "" THEN << >>
  ELSE LET n == TokenLen(t, 1) IN
       << SubSeq(t, 1, n) >> \o SplitWhitespace(From(t, n + 1))

\* str::split(c), collected into a sequence of pieces
RECURSIVE Split(_, _)
Split(s, c) ==
  LET k == Find(s, c, 1) IN
  IF k = 0 THEN << s >>
  ELSE << SubSeq(s, 1, k - 1) >> \o Split(From(s, k + 1), c)

\* str::trim_start_matches(p): removes EVERY leading repetition of p
RECURSIVE TrimStartMatches(_, _)
TrimStartMatches(s, p) ==
  IF p # "" /\ StartsWith(s, p)
  THEN TrimStartMatches(From(s, Len(p) + 1), p)
  ELSE s

Digits == << "0", "1", "2", "3", "4", "5", "6", "7", "8", "9" >>

IsDigit(c) == \E d \in 1..10 : Digits[d] = c

DigitVal(c) == (CHOOSE d \in 1..10 : Digits[d] = c) - 1

\* usize::to_string
RECURSIVE NatToStr(_)
NatToStr(n) ==
  IF n < 10 THEN Digits[n + 1]
  ELSE NatToStr(n \div 10) \o Digits[(n % 10) + 1]

RECURSIVE DigitsVal(_, _)
DigitsVal(s, acc) ==
  IF s = "" THEN acc
  ELSE DigitsVal(From(s, 2), acc * 10 + DigitVal(Ch(s, 1)))

\* str::parse::<usize>: an optional leading '+', then one or more decimal
\* digits and nothing else (the inputs of this model stay far below usize::MAX)
ParseUsize(s) ==
  LET d == IF StartsWith(s, "+") THEN From(s, 2) ELSE s IN
  IF d # "" /\ \A i \in 1..Len(d) : IsDigit(Ch(d, i))
  THEN [ok |-> TRUE, val |-> DigitsVal(d, 0)]
  ELSE [ok |-> FALSE, val |-> 0]

\* ASCII lower case of a text
LowerCh(c) ==
  LET k == Find("ABCDEFGHIJKLMNOPQRSTUVWXYZ", c, 1) IN
  IF k = 0 THEN c ELSE Ch("abcdefghijklmnopqrstuvwxyz", k)

RECURSIVE Lower(_)
Lower(s) == IF s = "" THEN "" ELSE LowerCh(Ch(s, 1)) \o Lower(From(s, 2))

\* HashMap<String, String>
EmptyMap == [k \in {} |-> ""]

MapInsert(m, k, v) == [x \in DOMAIN m \cup {k} |-> IF x = k THEN v ELSE m[x]]

Has(m, k) == k \in DOMAIN m


(***************************************************************************)
(* enum HTTPMethod, ContentType, EncodingScheme and their string tables.   *)
(***************************************************************************)
HTTPMethod == {"GET", "POST", "PUT", "DELETE"}

\* HTTPMethod::from_str falling back to the default method of HTTPRequest::new
HTTPMethod_from_str_default(tok) ==
  IF tok \in {"GET", "PUT", "POST", "DELETE"}
  THEN [some |-> TRUE, val |-> tok]
  ELSE [some |-> TRUE, val |-> "GET"]

\* HTTPMethod::from_str: Some(method) exactly for the four upper-case tokens
HTTPMethod_from_str(tok) ==
  IF tok = "GET" THEN [some |-> TRUE, val |-> "GET"]
  ELSE IF tok = "PUT" THEN [some |-> TRUE, val |-> "PUT"]
  ELSE IF tok = "POST" THEN [some |-> TRUE, val |-> "POST"]
  ELSE IF tok = "DELETE" THEN [some |-> TRUE, val |-> "DELETE"]
  ELSE [some |-> FALSE, val |-> "GET"]

\* ContentType::as_str
ContentType_as_str(ct) ==
  CASE ct = "PLAIN" -> "text/plain"
    [] ct = "JSON" -> "application/json"
    [] ct = "OCTET" -> "application/octet-stream"

\* EncodingScheme::GZIP.as_str()
GZIP_as_str == "gzip"

(***************************************************************************)
(* struct HTTPRequest and HTTPRequest::parse_request.                      *)
(***************************************************************************)
None == [some |-> FALSE, val |-> ""]

Some(v) == [some |-> TRUE, val |-> v]

\* HTTPRequest::new
NewRequest ==
  [method |-> "GET", path |-> "", version |-> "", headers |-> EmptyMap, body |-> None]

\* BufRead::read_line from offset pos: the bytes up to and including the next
\* "\n", or up to the end of the stream
ReadLine(s, pos) ==
  LET k == Find(s, "\n", pos + 1)
      e == IF k = 0 THEN Len(s) ELSE k
  IN [bytes |-> SubSeq(s, pos + 1, e), next |-> e]

\* BufRead::lines item: a trailing "\n" is removed, and then a trailing "\r"
StripEol(l) ==
  IF Len(l) > 0 /\ Ch(l, Len(l)) = "\n"
  THEN LET m == SubSeq(l, 1, Len(l) - 1) IN
       IF Len(m) > 0 /\ Ch(m, Len(m)) = "\r" THEN SubSeq(m, 1, Len(m) - 1) ELSE m
  ELSE l

\* the loop that collects the header lines: stops at the first empty line or
\* at the end of the stream, fails on a line that is not UTF-8
RECURSIVE ReadHeaderLines(_, _, _)
ReadHeaderLines(s, pos, acc) ==
  IF pos >= Len(s) THEN [ok |-> TRUE, lines |-> acc, next |-> pos]
  ELSE LET l == ReadLine(s, pos) IN
       IF ~ValidUtf8(l.bytes) THEN [ok |-> FALSE, lines |-> acc, next |-> l.next]
       ELSE IF StripEol(l.bytes) = "" THEN [ok |-> TRUE, lines |-> acc, next |-> l.next]
       ELSE ReadHeaderLines(s, l.next, Append(acc, StripEol(l.bytes)))

\* the capitalization the lookups use, for the names they look up
Canonical(name) ==
  IF Lower(name) = "user-agent" THEN "User-Agent"
  ELSE IF Lower(name) = "content-length" THEN "Content-Length"
  ELSE IF Lower(name) = "accept-encoding" THEN "Accept-Encoding"
  ELSE name

\* InsertHeaderLine storing the names in their canonical capitalization
InsertHeaderLineCanonical(m, line) ==
  LET k == Find(line, ":", 1) IN
  IF k = 0 THEN m
  ELSE MapInsert(m, Canonical(Trim(SubSeq(line, 1, k - 1))), Trim(From(line, k + 1)))

\* InsertHeaderLine splitting on the last colon of the line (rsplitn)
InsertHeaderLineLastColon(m, line) ==
  LET k == CHOOSE j \in 0..Len(line) :
             /\ j > 0 => Ch(line, j) = ":"
             /\ \A i \in (j + 1)..Len(line) : Ch(line, i) # ":"
  IN IF k = 0 THEN m
     ELSE MapInsert(m, Trim(SubSeq(line, 1, k - 1)), Trim(From(line, k + 1)))

\* line.splitn(2, ':') and the insert of the trimmed key and value; a line
\* without a colon inserts nothing
InsertHeaderLine(m, line) ==
  LET k == Find(line, ":", 1) IN
  IF k = 0 THEN m
  ELSE MapInsert(m, Trim(SubSeq(line, 1, k - 1)), Trim(From(line, k + 1)))

RECURSIVE ProcessHeaders(_, _)
ProcessHeaders(lines, m) ==
  IF lines = << >> THEN m
  ELSE ProcessHeaders(Tail(lines), InsertHeaderLine(m, Head(lines)))

ParseFail(msg, consumed) ==
  [ok |-> FALSE, abort |-> FALSE, err |-> msg, request |-> NewRequest,
   consumed |-> consumed]

\* the largest vector the allocator grants, on the scale of the bodies of the
\* model; on a 64-bit Linux no request above 2^47 bytes is ever granted
MaxAlloc == 8

\* vec![0; length] is refused by the allocator: handle_alloc_error aborts the
\* process, parse_request does not return
AllocAbort(consumed) ==
  [ok |-> FALSE, abort |-> TRUE, err |-> "", request |-> NewRequest,
   consumed |-> consumed]

\* ReadBody with read in place of read_exact: a short stream gives a short body
ReadBodyShort(s, r, pos) ==
  IF Has(r.headers, "Content-Length") /\ ParseUsize(r.headers["Content-Length"]).ok
  THEN LET length == ParseUsize(r.headers["Content-Length"]).val
           end == IF Len(s) - pos < length THEN Len(s) ELSE pos + length
       IN [ok |-> TRUE, abort |-> FALSE, err |-> "",
           request |-> [r EXCEPT !.body = Some(SubSeq(s, pos + 1, end))],
           consumed |-> end]
  ELSE [ok |-> TRUE, abort |-> FALSE, err |-> "",
        request |-> [r EXCEPT !.body = None], consumed |-> pos]

\* ReadBody taking a declared length of 0 for no body at all
ReadBodyZeroAbsent(s, r, pos) ==
  IF Has(r.headers, "Content-Length")
  THEN LET length == ParseUsize(r.headers["Content-Length"]) IN
       IF ~length.ok THEN ParseFail("Error parsing Content-Length", pos)
       ELSE IF length.val > MaxAlloc THEN AllocAbort(pos)
       ELSE IF Len(s) - pos < length.val THEN ParseFail("Error reading body", Len(s))
       ELSE LET body == SubSeq(s, pos + 1, pos + length.val) IN
            IF ~ValidUtf8(body)
            THEN ParseFail("Error parsing body as UTF-8", pos + length.val)
            ELSE [ok |-> TRUE, abort |-> FALSE, err |-> "",
                  request |-> [r EXCEPT !.body = IF body = "" THEN None ELSE Some(body)],
                  consumed |-> pos + length.val]
  ELSE [ok |-> TRUE, abort |-> FALSE, err |-> "",
        request |-> [r EXCEPT !.body = None], consumed |-> pos]

\* the optional body, read after the header block
ReadBody(s, r, pos) ==
  IF Has(r.headers, "Content-Length")
  THEN LET length == ParseUsize(r.headers["Content-Length"]) IN
       IF ~length.ok THEN ParseFail("Error parsing Content-Length", pos)
       ELSE IF length.val > MaxAlloc THEN AllocAbort(pos)
       ELSE IF Len(s) - pos < length.val THEN ParseFail("Error reading body", Len(s))
       ELSE LET body == SubSeq(s, pos + 1, pos + length.val) IN
            IF ~ValidUtf8(body)
            THEN ParseFail("Error parsing body as UTF-8", pos + length.val)
            ELSE [ok |-> TRUE, abort |-> FALSE, err |-> "",
                  request |-> [r EXCEPT !.body = Some(body)],
                  consumed |-> pos + length.val]
  ELSE [ok |-> TRUE, abort |-> FALSE, err |-> "",
        request |-> [r EXCEPT !.body = None], consumed |-> pos]

\* RequestLineOk asking for at least three parts
RequestLineOkAtLeast(parts) == Len(parts) >= 3

\* the check of the request line: parts.len() != 3 is an error
RequestLineOk(parts) == Len(parts) = 3

\* HTTPRequest::parse_request on the byte stream s
parse_request(s) ==
  LET l == ReadLine(s, 0)
      parts == SplitWhitespace(Trim(l.bytes))
  IN
  IF ~ValidUtf8(l.bytes) THEN ParseFail("Error reading request line", l.next)
  ELSE IF ~RequestLineOk(parts) THEN ParseFail("Invalid request line", l.next)
  ELSE IF ~HTTPMethod_from_str(parts[1]).some
       THEN ParseFail("Invalid HTTP method: " \o parts[1], l.next)
  ELSE LET h == ReadHeaderLines(s, l.next, << >>) IN
       IF ~h.ok THEN ParseFail("Error reading header line", h.next)
       ELSE ReadBody(s,
                     [method |-> HTTPMethod_from_str(parts[1]).val,
                      path |-> parts[2],
                      version |-> parts[3],
                      headers |-> ProcessHeaders(h.lines, EmptyMap),
                      body |-> None],
                     h.next)

(***************************************************************************)
(* flate2::write::GzEncoder (external library).  A gzip member is a        *)
(* 10-byte header, a deflate stream and an 8-byte trailer (CRC32, ISIZE).  *)
(* The deflate stream is modelled as one stored block: a block byte, the   *)
(* 4-byte length field and the raw bytes.  Gunzip is the client's decoder. *)
(***************************************************************************)
GzHeader == "g" \o BadByte \o "d" \o "f" \o "tttt" \o "x" \o "o"

Pad4(d) == SubSeq("0000", 1, 4 - Len(d)) \o d

Gzip(text) ==
  GzHeader \o "s" \o Pad4(NatToStr(Len(text))) \o text
           \o "cccc" \o Pad4(NatToStr(Len(text)))

Gunzip(bytes) ==
  IF Len(bytes) >= 23 /\ SubSeq(bytes, 1, 10) = GzHeader /\ Ch(bytes, 11) = "s"
     /\ ParseUsize(SubSeq(bytes, 12, 15)).ok
  THEN LET n == ParseUsize(SubSeq(bytes, 12, 15)).val IN
       IF Len(bytes) = 23 + n /\ From(bytes, 20 + n) = Pad4(NatToStr(n))
       THEN Some(SubSeq(bytes, 16, 15 + n))
       ELSE None
  ELSE None

(***************************************************************************)
(* struct HTTPResponse.                                                    *)
(***************************************************************************)
\* HTTPResponse::new
HTTPResponse_new(version, status_code, status_msg) ==
  [version |-> version, status_code |-> status_code, status_msg |-> status_msg,
   headers |-> EmptyMap, body |-> "", is_encoded |-> FALSE, encoded_body |-> "",
   content_type |-> "PLAIN"]

\* HTTPResponse::set_encoded_body
set_encoded_body(response, encoded_data) ==
  [response EXCEPT !.encoded_body = encoded_data, !.is_encoded = TRUE]

\* HTTPResponse::set_body
set_body(response, body) ==
  [response EXCEPT !.body = body, !.is_encoded = FALSE]

\* response.headers.insert(key, value)
InsertHeader(response, key, value) ==
  [response EXCEPT !.headers = MapInsert(response.headers, key, value)]

SetStatus(response, code, msg) ==
  [response EXCEPT !.status_code = code, !.status_msg = msg]

\* the orders in which a HashMap may iterate over the key set S
Orders(S) ==
  {o \in [1..Cardinality(S) -> S] : \A i, j \in 1..Cardinality(S) : o[i] = o[j] => i = j}

RECURSIVE HeaderLines(_, _, _)
HeaderLines(headers, order, i) ==
  IF i > Len(order) THEN ""
  ELSE order[i] \o ": " \o headers[order[i]] \o "\r\n" \o HeaderLines(headers, order, i + 1)

\* the body representation that to_vec emits
ActiveBody(response) ==
  IF response.is_encoded THEN response.encoded_body ELSE response.body

\* the status line that to_vec formats
StatusLine(response) ==
  response.version \o " " \o NatToStr(response.status_code) \o " " \o response.status_msg
    \o "\r\n"

\* HTTPResponse::to_vec, the header map iterated in the given order
to_vec(response, order) ==
  StatusLine(response) \o HeaderLines(response.headers, order, 1) \o "\r\n"
    \o ActiveBody(response)

(***************************************************************************)
(* handle_encoding and http_server_response.                               *)
(***************************************************************************)
RECURSIVE TrimAll(_)
TrimAll(pieces) ==
  IF pieces = << >> THEN << >>
  ELSE << Trim(Head(pieces)) >> \o TrimAll(Tail(pieces))

\* handle_encoding accepting any token that contains the scheme name
handle_encoding_substring(request, response) ==
  IF Has(request.headers, "Accept-Encoding")
     /\ \E i \in 1..Len(request.headers["Accept-Encoding"]) :
          StartsWith(From(request.headers["Accept-Encoding"], i), GZIP_as_str)
  THEN set_encoded_body(InsertHeader(response, "Content-Encoding", GZIP_as_str),
                        Gzip(response.body))
  ELSE response

\* handle_encoding
handle_encoding(request, response) ==
  IF Has(request.headers, "Accept-Encoding")
  THEN LET encodings == TrimAll(Split(request.headers["Accept-Encoding"], ",")) IN
       IF \E i \in 1..Len(encodings) : encodings[i] = GZIP_as_str
       THEN set_encoded_body(InsertHeader(response, "Content-Encoding", GZIP_as_str),
                             Gzip(response.body))
       ELSE response
  ELSE response

is_echo_endpoint(path) == StartsWith(path, "/echo")

is_agent_endpoint(path) == StartsWith(path, "/user-agent")

is_file_endpoint(path) == StartsWith(path, "/files")

\* DefaultResponse matching "/" as a prefix, like the other routes
DefaultResponsePrefixRoot(request) ==
  IF StartsWith(request.path, "/")
  THEN HTTPResponse_new(request.version, 200, "OK")
  ELSE HTTPResponse_new(request.version, 404, "Not Found")

\* the default status of the route and the fresh response (lines 266-278)
DefaultResponse(request) ==
  IF \/ request.path = "/"
     \/ is_echo_endpoint(request.path)
     \/ is_agent_endpoint(request.path)
     \/ is_file_endpoint(request.path)
  THEN HTTPResponse_new(request.version, 200, "OK")
  ELSE HTTPResponse_new(request.version, 404, "Not Found")

\* the echo branch
EchoBody(path) == TrimStartMatches(path, "/echo/")

EchoRoute(request, response) ==
  set_body(InsertHeader([response EXCEPT !.content_type = "PLAIN"],
                        "Content-Type", ContentType_as_str("PLAIN")),
           EchoBody(request.path))

\* AgentRoute without the status override for a missing header
AgentRouteKeepsStatus(request, response) ==
  LET r == InsertHeader([response EXCEPT !.content_type = "PLAIN"],
                        "Content-Type", ContentType_as_str("PLAIN"))
  IN IF Has(request.headers, "User-Agent")
     THEN set_body(r, request.headers["User-Agent"])
     ELSE r

\* the user-agent branch
AgentRoute(request, response) ==
  LET r == InsertHeader([response EXCEPT !.content_type = "PLAIN"],
                        "Content-Type", ContentType_as_str("PLAIN"))
  IN IF Has(request.headers, "User-Agent")
     THEN set_body(r, request.headers["User-Agent"])
     ELSE SetStatus(r, 404, "User-Agent header not found")

\* env::args().get(2), defaulting to "."
Directory == "."

\* the operating system resolves repeated slashes as one
RECURSIVE Normalize(_)
Normalize(p) ==
  IF Len(p) < 2 THEN p
  ELSE IF SubSeq(p, 1, 2) = "//" THEN Normalize(From(p, 2))
  ELSE Ch(p, 1) \o Normalize(From(p, 2))

\* file_path = format!("{}/{}", directory, file_name), as the file it names
FilePath(path) == Normalize(Directory \o "/" \o TrimStartMatches(path, "/files/"))

\* a path that names a directory cannot be created or read as a file
IsDirectory(p) == Len(p) > 0 /\ Ch(p, Len(p)) = "/"

\* fs::read(&file_path) on the file system fs
fs_read(fs, p) ==
  IF ~IsDirectory(p) /\ p \in DOMAIN fs THEN [ok |-> TRUE, data |-> fs[p]]
  ELSE [ok |-> FALSE, data |-> ""]

\* FileGet with the statuses of its two error arms exchanged
FileGetSwappedErrors(response, read) ==
  IF read.ok
  THEN IF ValidUtf8(read.data)
       THEN set_body(InsertHeader([response EXCEPT !.content_type = "OCTET"],
                                  "Content-Type", ContentType_as_str("OCTET")),
                     read.data)
       ELSE set_body(SetStatus(response, 404, "Not Found"), "")
  ELSE set_body(SetStatus(response, 500, "Internal Server Error"), "")

\* the GET arm of the file branch
FileGet(response, read) ==
  IF read.ok
  THEN IF ValidUtf8(read.data)
       THEN set_body(InsertHeader([response EXCEPT !.content_type = "OCTET"],
                                  "Content-Type", ContentType_as_str("OCTET")),
                     read.data)
       ELSE set_body(SetStatus(response, 500, "Internal Server Error"), "")
  ELSE set_body(SetStatus(response, 404, "Not Found"), "")

\* FileOther leaving the default status of the route
FileOtherDefault(response) == response

\* the arm of the file branch for every method but POST and GET
FileOther(response) == SetStatus(response, 405, "Method Not Allowed")

\* the POST arm when File::create fails
FileCreateFailed(response) ==
  set_body(SetStatus(response, 500, "Internal Server Error"),
           "Error creating file: Is a directory")

\* FilePosted returning from the error arm of write_all: the 500 stays
FilePostedFailureKept(response, written) ==
  IF written THEN SetStatus(response, 201, "Created")
  ELSE set_body(SetStatus(response, 500, "Internal Server Error"),
                "Failed to write to file: No space left on device")

\* the POST arm after File::create succeeded; written tells whether write_all
\* returned Ok.  The status is set to 201 on both paths.
FilePosted(response, written) ==
  LET r == IF written THEN response
           ELSE set_body(SetStatus(response, 500, "Internal Server Error"),
                         "Failed to write to file: No space left on device")
  IN SetStatus(r, 201, "Created")

\* the payload of a POST: the body, or "" when no body was parsed
FileContent(request) == IF request.body.some THEN request.body.val ELSE ""

\* Finalize measuring the raw text whatever representation is active
FinalizeRawLength(request, response) ==
  InsertHeader(handle_encoding(request, response), "Content-Length",
               NatToStr(Len(handle_encoding(request, response).body)))

\* lines 373-387: encoding negotiation, then the Content-Length header
Finalize(request, response) ==
  LET r == handle_encoding(request, response)
      content_length == IF r.is_encoded THEN Len(r.encoded_body) ELSE Len(r.body)
  IN InsertHeader(r, "Content-Length", NatToStr(content_length))

\* http_server_response for every request that does not write a file; read is
\* the result of fs::read, used by GET on the file route only
http_server_response(request, read) ==
  LET response == DefaultResponse(request) IN
  Finalize(request,
    IF is_echo_endpoint(request.path) THEN EchoRoute(request, response)
    ELSE IF is_agent_endpoint(request.path) THEN AgentRoute(request, response)
    ELSE IF is_file_endpoint(request.path)
         THEN IF request.method = "GET" THEN FileGet(response, read)
              ELSE FileOther(response)
    ELSE response)

\* the requests for which http_server_response calls fs::read
ReadsFile(request) ==
  /\ ~is_echo_endpoint(request.path)
  /\ ~is_agent_endpoint(request.path)
  /\ is_file_endpoint(request.path)
  /\ request.method = "GET"

\* the requests for which http_server_response takes the POST arm of the file branch
IsFilePost(request) ==
  /\ ~is_echo_endpoint(request.path)
  /\ ~is_agent_endpoint(request.path)
  /\ is_file_endpoint(request.path)
  /\ request.method = "POST"

(***************************************************************************)
(* The clients.  A client request is the request line, the header lines    *)
(* (name, separator, value), the line terminator, whether the blank line   *)
(* ending the header block is sent, and the bytes sent after it; the       *)
(* client then closes its sending side.  Wire is the byte stream the       *)
(* server reads.                                                           *)
(***************************************************************************)
Hdr(name, value) == << name, ": ", value >>

HdrLine(h) == h[1] \o h[2] \o h[3]

RECURSIVE HdrBlock(_, _)
HdrBlock(hdrs, eol) ==
  IF hdrs = << >> THEN ""
  ELSE HdrLine(Head(hdrs)) \o eol \o HdrBlock(Tail(hdrs), eol)

Wire(cl) ==
  cl.line \o cl.eol \o HdrBlock(cl.hdrs, cl.eol)
    \o (IF cl.term THEN cl.eol ELSE "") \o cl.tail

Req(line, hdrs, tail) ==
  [line |-> line, hdrs |-> hdrs, eol |-> "\r\n", term |-> TRUE, tail |-> tail]

Line(m, p, v) == m \o " " \o p \o " " \o v

Paths ==
  {"/", "/echo/hi", "/echo//echo/hi", "/echo", "/echox", "/user-agent", "/user-agent/x",
   "/files/f", "/files/", "/files", "/nope"}

Versions == {"HTTP/1.1", "HTTP/1.0"}

HeaderSets ==
  { << >>,
    << Hdr("User-Agent", "curl/8") >>,
    << Hdr("Accept-Encoding", "gzip") >>,
    << Hdr("User-Agent", "curl/8"), Hdr("Accept-Encoding", "br, gzip") >>,
    << Hdr("Accept-Encoding", "gzipx, br") >>,
    << Hdr("Accept-Encoding", "gzip;q=1"), Hdr("User-Agent", "") >>,
    << Hdr("Accept-Encoding", "deflate , gzip,br") >>,
    << Hdr("accept-encoding", "gzip"), Hdr("user-agent", "curl/8") >>,
    << Hdr("USER-AGENT", "x"), Hdr("Accept-encoding", "gzip"),
       Hdr("Content-length", "0") >> }

\* every method on every route under every header set
RouteRequests ==
  {Req(Line(m, p, v), h, "") :
     m \in HTTPMethod, p \in Paths, v \in Versions, h \in HeaderSets}

\* other values of Accept-Encoding
EncodingRequests ==
  {Req(Line("GET", p, "HTTP/1.1"), << Hdr("Accept-Encoding", v) >>, "") :
     p \in {"/echo/hi", "/files/f"}, v \in {"GZIP", "", "br,gzip", "g zip", ",gzip"}}
  \cup
  {Req(Line("GET", "/echo/hi", "HTTP/1.1"),
       << Hdr("Accept-Encoding", "gzip"), Hdr("Accept-Encoding", "br") >>, "")}

\* bodies: the prefixes of a text, and a body holding a byte that is not UTF-8
MaxBodyLen == 2

BodyText == "abcdefgh"

Tails == {SubSeq(BodyText, 1, n) : n \in 0..MaxBodyLen} \cup {BadByte}

\* POST with every declared Content-Length against every tail actually sent
BodyRequests ==
  {Req(Line("POST", "/files/f", "HTTP/1.1"), << Hdr("Content-Length", NatToStr(n)) >>, t) :
     n \in 0..MaxBodyLen, t \in Tails}
  \cup
  {Req(Line("POST", "/files/f", "HTTP/1.1"), << Hdr(k, v) >>, "ab") :
     k \in {"Content-Length", "content-length"}, v \in {"2", "+1", "-1", "two", ""}}
  \cup
  {Req(Line("POST", "/files/f", "HTTP/1.1"),
       << Hdr("Content-Length", "1"), Hdr("Accept-Encoding", "gzip"),
          Hdr("Content-Length", "2") >>, "ab"),
   Req(Line("POST", "/echo/hi", "HTTP/1.1"), << Hdr("Content-Length", "2") >>, "a"),
   Req(Line("POST", "/files/f", "HTTP/1.1"), << Hdr("Content-Length", "99") >>, "ab"),
   Req(Line("GET", "/", "HTTP/1.1"), << Hdr("Content-Length", "9") >>, ""),
   Req(Line("GET", "/files/f", "HTTP/1.1"), << Hdr("Content-Length", "1") >>, BadByte)}

\* request lines that are not "METHOD SP PATH SP VERSION"
LineRequests ==
  {Req(l, h, "") :
     l \in {"", "GET", "GET /echo/hi", "POST /files/f", "GET / HTTP/1.1 extra",
            "PATCH /files/f HTTP/1.1", "get / HTTP/1.1", "PATCH /",
            "  GET\t/echo/hi   HTTP/1.1 ", "GET /" \o BadByte \o " HTTP/1.1"},
     h \in {<< >>, << Hdr("Content-Length", "0") >>}}
  \cup
  {[line |-> "", hdrs |-> << >>, eol |-> "", term |-> FALSE, tail |-> ""],
   [line |-> "POST /files/f", hdrs |-> << >>, eol |-> "", term |-> FALSE, tail |-> ""]}

\* header lines in unusual shapes
HeaderRequests ==
  {[line |-> Line("GET", "/user-agent", "HTTP/1.1"), hdrs |-> h, eol |-> e, term |-> t,
    tail |-> ""] :
     h \in {<< << "User-Agent", ":", "a:b" >> >>,
            << << " User-Agent ", " : ", " curl/8 " >> >>,
            << << "User-Agent", "", "" >>, Hdr("Accept-Encoding", " gzip ") >>,
            << Hdr("User-Agent", "one"), Hdr("User-Agent", "two") >>,
            << Hdr("User-Agent", BadByte) >>,
            << Hdr("X-Trace", "1"), << "", "", "" >>, Hdr("User-Agent", "late") >>,
            << << " ", "", "" >>, Hdr("User-Agent", "x") >>,
            << << "", ":", "v" >>, << "User-Agent", ":", "" >> >>},
     e \in {"\r\n", "\n"}, t \in BOOLEAN}
  \cup
  {Req(Line("GET", "/user-agent", "HTTP/1.1"), h, "User-Agent: late\r\n\r\n") :
     h \in {<< >>, << Hdr("Accept-Encoding", "gzip") >>}}

Requests ==
  RouteRequests \cup EncodingRequests \cup BodyRequests \cup LineRequests
    \cup HeaderRequests

\* the requests of clients served at the same time: they share the files
ConcurrentRequests ==
  {Req(Line("GET", "/files/f", "HTTP/1.1"), << >>, ""),
   Req(Line("POST", "/files/f", "HTTP/1.1"), << Hdr("Content-Length", "2") >>, "ab"),
   Req(Line("POST", "/files/f", "HTTP/1.1"), << Hdr("Content-Length", "3") >>, "xyz"),
   Req(Line("POST", "/files/f", "HTTP/1.1"), << >>, ""),
   Req(Line("POST", "/files/g", "HTTP/1.1"), << Hdr("Content-Length", "1") >>, "q"),
   Req(Line("PUT", "/files/f", "HTTP/1.1"), << Hdr("Content-Length", "1") >>, "p"),
   Req(Line("POST", "/files/f", "HTTP/1.1"), << Hdr("Content-Length", "3") >>, "xy"),
   Req(Line("PATCH", "/files/f", "HTTP/1.1"), << >>, ""),
   Req(Line("GET", "/echo/hi", "HTTP/1.1"), << >>, ""),
   Req(Line("GET", "/user-agent", "HTTP/1.1"), << >>, ""),
   Req(Line("GET", "/", "HTTP/1.1"), << Hdr("Content-Length", "99") >>, ""),
   Req(Line("POST", "/files//files/f", "HTTP/1.1"), << Hdr("Content-Length", "1") >>, "d"),
   Req(Line("GET", "/echo/a", "HTTP/1.1"), << >>, "GET /echo/b HTTP/1.1\r\n\r\n")}

\* the files present when the server starts
InitialFiles ==
  {EmptyMap, [p \in {"./f"} |-> "old!"], [p \in {"./f"} |-> "o" \o BadByte]}

(***************************************************************************)
(* The server: main spawns one thread per accepted connection, each        *)
(* running handle_tcp_stream_connect.  One action per step of a thread     *)
(* that other threads can observe.                                         *)
(***************************************************************************)
Conns == {"c1", "c2"}

VARIABLES
  client,     \* client[c]: what the client of connection c sends
  pc,         \* pc[c]: where the thread of connection c stands
  req,        \* req[c]: the HTTPRequest of the thread
  perr,       \* perr[c]: the error parse_request returned, "" if none
  consumed,   \* consumed[c]: how many bytes of the stream parse_request consumed
  resp,       \* resp[c]: the HTTPResponse returned by http_server_response
  wire,       \* wire[c]: the bytes written to the socket
  fs,         \* the files of the served directory: path -> content
  touched,    \* touched[c]: the paths the thread created or wrote
  doneBefore, \* doneBefore[c]: the threads that had left http_server_response
              \* when the thread of c entered it
  fread       \* fread[c]: what fs::read returned to the thread, if it read a file

vars ==
  << client, pc, req, perr, consumed, resp, wire, fs, touched, doneBefore, fread >>

NoResponse == HTTPResponse_new("", 0, "")

NoRead == [ok |-> FALSE, data |-> "", done |-> FALSE]

\* a connection slot on which listener.incoming() yields no connection
NoClient == [line |-> "", hdrs |-> << >>, eol |-> "", term |-> FALSE, tail |-> ""]

\* the threads of the connections in active have been spawned, their clients
\* have sent client, and no other connection arrives
Start(active) ==
  /\ pc = [c \in Conns |-> IF c \in active THEN "accepted" ELSE "unused"]
  /\ req = [c \in Conns |-> NewRequest]
  /\ perr = [c \in Conns |-> ""]
  /\ consumed = [c \in Conns |-> 0]
  /\ resp = [c \in Conns |-> NoResponse]
  /\ wire = [c \in Conns |-> ""]
  /\ fs \in InitialFiles
  /\ touched = [c \in Conns |-> {}]
  /\ doneBefore = [c \in Conns |-> {}]
  /\ fread = [c \in Conns |-> NoRead]

\* one connection, any request
Init ==
  /\ \E r \in Requests : client = [c \in Conns |-> IF c = "c1" THEN r ELSE NoClient]
  /\ Start({"c1"})

\* every connection at once, the requests that share files
InitConcurrent ==
  /\ client \in [Conns -> ConcurrentRequests]
  /\ Start(Conns)

Routed(c) == pc[c] \in {"routed", "sent", "dropped"}

\* tcp_stream.peer_addr()? fails: the handler returns before reading anything
PeerAddrFail(c) ==
  /\ pc[c] = "accepted"
  /\ pc' = [pc EXCEPT ![c] = "noaddr"]
  /\ UNCHANGED << client, req, perr, consumed, resp, wire, fs, touched, doneBefore, fread >>

\* the threads that are still running
Running(d) == pc[d] \in {"accepted", "parsed", "created", "routed"}

\* request.parse_request(tcp_stream), and the early return on Err; when the
\* allocation of the body buffer aborts the process, every running thread
\* ends with it
ParseRequest(c) ==
  /\ pc[c] = "accepted"
  /\ LET r == parse_request(Wire(client[c])) IN
       /\ pc' = IF r.abort
                THEN [d \in Conns |-> IF d = c THEN "oom"
                                      ELSE IF Running(d) THEN "killed" ELSE pc[d]]
                ELSE [pc EXCEPT ![c] = IF r.ok THEN "parsed" ELSE "aborted"]
       /\ req' = [req EXCEPT ![c] = r.request]
       /\ perr' = [perr EXCEPT ![c] = r.err]
       /\ consumed' = [consumed EXCEPT ![c] = r.consumed]
  /\ UNCHANGED << client, resp, wire, fs, touched, doneBefore, fread >>

Entered(c) ==
  doneBefore' = [doneBefore EXCEPT ![c] = {d \in Conns : Routed(d)}]

\* http_server_response(&request) for every request but a POST on the file route
Respond(c) ==
  /\ pc[c] = "parsed"
  /\ ~IsFilePost(req[c])
  /\ resp' = [resp EXCEPT ![c] =
                http_server_response(req[c], fs_read(fs, FilePath(req[c].path)))]
  /\ fread' = [fread EXCEPT ![c] =
                 IF ReadsFile(req[c])
                 THEN [ok |-> fs_read(fs, FilePath(req[c].path)).ok,
                       data |-> fs_read(fs, FilePath(req[c].path)).data, done |-> TRUE]
                 ELSE NoRead]
  /\ pc' = [pc EXCEPT ![c] = "routed"]
  /\ Entered(c)
  /\ UNCHANGED << client, req, perr, consumed, wire, fs, touched >>

\* fs_create opening without O_TRUNC: an existing file keeps its content
fs_create_keep(files, p) ==
  [q \in DOMAIN files \cup {p} |-> IF q \in DOMAIN files THEN files[q] ELSE ""]

\* File::create: an existing file is truncated, a missing one is created empty
fs_create(files, p) == [q \in DOMAIN files \cup {p} |-> IF q = p THEN "" ELSE files[q]]

\* POST on the file route, up to and including fs::File::create(&file_path)
PostCreate(c) ==
  /\ pc[c] = "parsed"
  /\ IsFilePost(req[c])
  /\ Entered(c)
  /\ LET p == FilePath(req[c].path) IN
       IF IsDirectory(p)
       THEN /\ resp' = [resp EXCEPT ![c] =
                          Finalize(req[c], FileCreateFailed(DefaultResponse(req[c])))]
            /\ pc' = [pc EXCEPT ![c] = "routed"]
            /\ UNCHANGED << fs, touched >>
       ELSE /\ fs' = fs_create(fs, p)
            /\ touched' = [touched EXCEPT ![c] = @ \cup {p}]
            /\ pc' = [pc EXCEPT ![c] = "created"]
            /\ UNCHANGED resp
  /\ UNCHANGED << client, req, perr, consumed, wire, fread >>

\* a write of data at offset 0 of the open file: bytes of the file beyond the
\* data stay as they are
fs_write(files, p, data) ==
  [files EXCEPT ![p] = data \o SubSeq(@, Len(data) + 1, Len(@))]

\* POST on the file route, from file.write_all to the return of
\* http_server_response; n is the number of bytes that reached the file
PostWrite(c) ==
  /\ pc[c] = "created"
  /\ LET p == FilePath(req[c].path)
         content == FileContent(req[c])
     IN \E n \in 0..Len(content) :
          /\ fs' = fs_write(fs, p, SubSeq(content, 1, n))
          /\ resp' = [resp EXCEPT ![c] =
                        Finalize(req[c], FilePosted(DefaultResponse(req[c]), n = Len(content)))]
  /\ pc' = [pc EXCEPT ![c] = "routed"]
  /\ UNCHANGED << client, req, perr, consumed, wire, touched, doneBefore, fread >>

\* response.to_vec() and tcp_stream.write_all(&response_vec)
Send(c) ==
  /\ pc[c] = "routed"
  /\ \E order \in Orders(DOMAIN resp[c].headers) :
       wire' = [wire EXCEPT ![c] = to_vec(resp[c], order)]
  /\ pc' = [pc EXCEPT ![c] = "sent"]
  /\ UNCHANGED << client, req, perr, consumed, resp, fs, touched, doneBefore, fread >>

\* write_all fails: nothing, or the status line only, reached the client
SendFail(c) ==
  /\ pc[c] = "routed"
  /\ \E partial \in {"", StatusLine(resp[c])} :
       wire' = [wire EXCEPT ![c] = partial]
  /\ pc' = [pc EXCEPT ![c] = "dropped"]
  /\ UNCHANGED << client, req, perr, consumed, resp, fs, touched, doneBefore, fread >>

Next ==
  \E c \in Conns :
    \/ PeerAddrFail(c)
    \/ ParseRequest(c)
    \/ Respond(c)
    \/ PostCreate(c)
    \/ PostWrite(c)
    \/ Send(c)
    \/ SendFail(c)

Spec == Init /\ [][Next]_vars

SpecConcurrent == InitConcurrent /\ [][Next]_vars

(***************************************************************************)
(* What a client reads off the socket: the status line, the header lines   *)
(* up to the first blank line, and the body bytes after it.                *)
(***************************************************************************)
\* position of the first occurrence of pat in s at or after i, 0 if none
RECURSIVE FindStr(_, _, _)
FindStr(s, pat, i) ==
  IF i + Len(pat) - 1 > Len(s) THEN 0
  ELSE IF SubSeq(s, i, i + Len(pat) - 1) = pat THEN i
  ELSE FindStr(s, pat, i + 1)

RECURSIVE CrlfLines(_)
CrlfLines(s) ==
  LET k == FindStr(s, "\r\n", 1) IN
  IF k = 0 THEN << s >>
  ELSE << SubSeq(s, 1, k - 1) >> \o CrlfLines(From(s, k + 2))

\* the response as the client splits it
ParseWire(bytes) ==
  LET k == FindStr(bytes, "\r\n\r\n", 1)
      lines == CrlfLines(SubSeq(bytes, 1, k - 1))
  IN [complete |-> k > 0, status |-> Head(lines), headers |-> Tail(lines),
      body |-> From(bytes, k + 4)]

\* the header lines "name: value" among lines
WireValues(lines, name) ==
  {i \in 1..Len(lines) : StartsWith(lines[i], name \o ": ")}

WireValue(lines, name) ==
  LET i == CHOOSE j \in WireValues(lines, name) : TRUE IN
  From(lines[i], Len(name) + 3)

Answered(c) == pc[c] = "sent"

(***************************************************************************)
(* C1.  Every response written to a socket has exactly one Content-Length  *)
(* header line, and its value is the decimal byte length of the bytes that *)
(* follow the blank line, which are the encoded bytes when is_encoded is   *)
(* set and the raw text bytes otherwise; every response returned by        *)
(* http_server_response declares the length of its active body.            *)
(***************************************************************************)
C1_ContentLengthExact ==
  \A c \in Conns :
    /\ Routed(c) =>
         /\ Has(resp[c].headers, "Content-Length")
         /\ resp[c].headers["Content-Length"] = NatToStr(Len(ActiveBody(resp[c])))
    /\ Answered(c) =>
         LET w == ParseWire(wire[c]) IN
         /\ w.complete
         /\ Cardinality(WireValues(w.headers, "Content-Length")) = 1
         /\ WireValue(w.headers, "Content-Length") = NatToStr(Len(w.body))
         /\ w.body = IF resp[c].is_encoded THEN resp[c].encoded_body ELSE resp[c].body

\* a compressed body has been sent, with the length of the compressed bytes
C1_Witness ==
  /\ Answered("c1")
  /\ resp["c1"].is_encoded
  /\ resp["c1"].body = "hi"
  /\ WireValue(ParseWire(wire["c1"]).headers, "Content-Length") = "25"

(***************************************************************************)
(* C2.  Under nominal conditions (the user-agent route finds its header,   *)
(* the file route is asked with GET for a file that is read and is text)   *)
(* the status line on the socket is "<version> 200 OK" when the path is    *)
(* "/" or starts with "/echo", "/user-agent" or "/files", and              *)
(* "<version> 404 Not Found" for every other path, <version> being the     *)
(* third token of the request line as the client sent it.                  *)
(***************************************************************************)
KnownRoute(path) ==
  \/ path = "/"
  \/ StartsWith(path, "/echo")
  \/ StartsWith(path, "/user-agent")
  \/ StartsWith(path, "/files")

Nominal(c) ==
  /\ (is_agent_endpoint(req[c].path) => Has(req[c].headers, "User-Agent"))
  /\ (is_file_endpoint(req[c].path) =>
        /\ req[c].method = "GET"
        /\ fread[c].done /\ fread[c].ok /\ ValidUtf8(fread[c].data))

SentVersion(c) == SplitWhitespace(client[c].line)[3]

C2_StatusLine ==
  \A c \in Conns :
    (Answered(c) /\ Nominal(c)) =>
      ParseWire(wire[c]).status
        = SentVersion(c) \o (IF KnownRoute(req[c].path) THEN " 200 OK" ELSE " 404 Not Found")

\* a file has been served with 200 under the version token the client sent
C2_Witness ==
  /\ Answered("c1") /\ Nominal("c1") /\ is_file_endpoint(req["c1"].path)
  /\ SentVersion("c1") = "HTTP/1.0"
  /\ req["c1"].method = "GET"
  /\ ParseWire(wire["c1"]).status = "HTTP/1.0 200 OK"

(***************************************************************************)
(* C3.  On the echo route, whatever the method, the textual body is the    *)
(* path with one leading "/echo/" removed, and the response has the header *)
(* Content-Type: text/plain.                                               *)
(***************************************************************************)
\* str::strip_prefix, the path itself when it does not start with the prefix
StripPrefixOnce(s, p) == IF StartsWith(s, p) THEN From(s, Len(p) + 1) ELSE s

C3_EchoStripsOnePrefix ==
  \A c \in Conns :
    (Routed(c) /\ StartsWith(req[c].path, "/echo")) =>
      /\ resp[c].body = StripPrefixOnce(req[c].path, "/echo/")
      /\ Has(resp[c].headers, "Content-Type")
      /\ resp[c].headers["Content-Type"] = "text/plain"

(***************************************************************************)
(* C4.  On the user-agent route a request with a User-Agent header gets    *)
(* status 200 and that header's value as textual body; a request without   *)
(* it gets status 404 and an empty textual body.  As claimed, no body      *)
(* bytes are transmitted in the second case whatever the other headers     *)
(* are; as amended, none are transmitted unless the request accepts gzip,  *)
(* and then the transmitted bytes are the gzip form of the empty text.     *)
(***************************************************************************)
\* the request's Accept-Encoding header lists the exact token "gzip"
AcceptsGzip(request) ==
  /\ Has(request.headers, "Accept-Encoding")
  /\ \E i \in 1..Len(Split(request.headers["Accept-Encoding"], ",")) :
       Trim(Split(request.headers["Accept-Encoding"], ",")[i]) = "gzip"

AgentAnswer(c, transmitted) ==
  IF Has(req[c].headers, "User-Agent")
  THEN /\ resp[c].status_code = 200
       /\ resp[c].body = req[c].headers["User-Agent"]
  ELSE /\ resp[c].status_code = 404
       /\ resp[c].body = ""
       /\ ActiveBody(resp[c]) = transmitted

C4_AgentNoBodyBytes ==
  \A c \in Conns :
    (Routed(c) /\ StartsWith(req[c].path, "/user-agent")) => AgentAnswer(c, "")

C4_AgentAmended ==
  \A c \in Conns :
    (Routed(c) /\ StartsWith(req[c].path, "/user-agent")) =>
      /\ AgentAnswer(c, IF AcceptsGzip(req[c]) THEN Gzip("") ELSE "")
      /\ Gzip("") # ""
      /\ Answered(c) => ParseWire(wire[c]).body = ActiveBody(resp[c])

\* a 404 for a missing User-Agent has been sent with a compressed empty body
C4_Witness ==
  \E c \in Conns :
    /\ Answered(c)
    /\ StartsWith(req[c].path, "/user-agent")
    /\ ~Has(req[c].headers, "User-Agent")
    /\ AcceptsGzip(req[c])
    /\ ParseWire(wire[c]).status = "HTTP/1.1 404 User-Agent header not found"
    /\ Len(ParseWire(wire[c]).body) = 23

(***************************************************************************)
(* C5.  Round trip on the file route: when a POST of body b to a name has  *)
(* answered 201 and a GET of the same name without Accept-Encoding enters  *)
(* the router afterwards, no other connection having written the file, the *)
(* GET answers 200 with body exactly b and Content-Type:                   *)
(* application/octet-stream, whatever the file held before the POST.       *)
(***************************************************************************)
C5_PostGetRoundTrip ==
  \A g, p \in Conns :
    ( /\ g # p
      /\ Routed(g) /\ ReadsFile(req[g]) /\ ~Has(req[g].headers, "Accept-Encoding")
      /\ p \in doneBefore[g]
      /\ IsFilePost(req[p]) /\ req[p].body.some /\ resp[p].status_code = 201
      /\ FilePath(req[p].path) = FilePath(req[g].path)
      /\ \A q \in Conns \ {g, p} : FilePath(req[p].path) \notin touched[q] )
    => /\ resp[g].status_code = 200
       /\ ActiveBody(resp[g]) = req[p].body.val
       /\ Has(resp[g].headers, "Content-Type")
       /\ resp[g].headers["Content-Type"] = "application/octet-stream"

(***************************************************************************)
(* C6.  A GET on the file route whose read fails (no such file, or the     *)
(* path is a directory) answers 404 with an empty textual body and without *)
(* Content-Type: application/octet-stream; a file that is not valid text   *)
(* answers 500 with an empty textual body.  As claimed, no body bytes are  *)
(* transmitted; as amended, none are transmitted unless the request        *)
(* accepts gzip, and then the gzip form of the empty text is transmitted.  *)
(***************************************************************************)
FileGetAnswer(c, transmitted) ==
  /\ ~fread[c].ok =>
       /\ resp[c].status_code = 404
       /\ resp[c].body = ""
       /\ ActiveBody(resp[c]) = transmitted
       /\ ~( /\ Has(resp[c].headers, "Content-Type")
             /\ resp[c].headers["Content-Type"] = "application/octet-stream" )
  /\ (fread[c].ok /\ ~ValidUtf8(fread[c].data)) =>
       /\ resp[c].status_code = 500
       /\ resp[c].body = ""
       /\ ActiveBody(resp[c]) = transmitted

C6_MissingFileNoBodyBytes ==
  \A c \in Conns :
    (Routed(c) /\ ReadsFile(req[c]) /\ fread[c].done) => FileGetAnswer(c, "")

C6_MissingFileAmended ==
  \A c \in Conns :
    (Routed(c) /\ ReadsFile(req[c]) /\ fread[c].done) =>
      /\ FileGetAnswer(c, IF AcceptsGzip(req[c]) THEN Gzip("") ELSE "")
      /\ Answered(c) => /\ ParseWire(wire[c]).complete
                        /\ ParseWire(wire[c]).body = ActiveBody(resp[c])

\* a file that is not text has been answered 500, with the compressed empty body
C6_Witness ==
  /\ Answered("c1") /\ ReadsFile(req["c1"]) /\ fread["c1"].ok
  /\ AcceptsGzip(req["c1"])
  /\ ParseWire(wire["c1"]).status = "HTTP/1.1 500 Internal Server Error"
  /\ Gunzip(ParseWire(wire["c1"]).body) = Some("")

(***************************************************************************)
(* C7.  The response carries Content-Encoding: gzip and transmits the gzip *)
(* form of the route's textual body (gunzip of the transmitted bytes gives *)
(* that text back) exactly when the parsed request has a header named      *)
(* Accept-Encoding whose comma-separated, trimmed tokens include "gzip";   *)
(* otherwise the text is transmitted as it is, without Content-Encoding.   *)
(***************************************************************************)
C7_EncodingNegotiation ==
  \A c \in Conns :
    /\ Routed(c) =>
         IF AcceptsGzip(req[c])
         THEN /\ Has(resp[c].headers, "Content-Encoding")
              /\ resp[c].headers["Content-Encoding"] = "gzip"
              /\ resp[c].is_encoded
              /\ Gunzip(ActiveBody(resp[c])) = Some(resp[c].body)
         ELSE /\ ~Has(resp[c].headers, "Content-Encoding")
              /\ ActiveBody(resp[c]) = resp[c].body
    /\ Answered(c) =>
         LET w == ParseWire(wire[c]) IN
         IF AcceptsGzip(req[c])
         THEN /\ Cardinality(WireValues(w.headers, "Content-Encoding")) = 1
              /\ WireValue(w.headers, "Content-Encoding") = "gzip"
              /\ Gunzip(w.body) = Some(resp[c].body)
         ELSE /\ WireValues(w.headers, "Content-Encoding") = {}
              /\ w.body = resp[c].body

\* "br, gzip" has been answered with the compressed echo text
C7_Witness ==
  \E c \in Conns :
    /\ Answered(c)
    /\ Has(req[c].headers, "Accept-Encoding")
    /\ req[c].headers["Accept-Encoding"] = "br,gzip"
    /\ WireValue(ParseWire(wire[c]).headers, "Content-Encoding") = "gzip"
    /\ Gunzip(ParseWire(wire[c]).body) = Some("hi")
    /\ ParseWire(wire[c]).body # "hi"

(***************************************************************************)
(* The request as the client meant it, read off what the client sent.      *)
(***************************************************************************)
\* the handler of c has gone past parse_request
Handled(c) == pc[c] \notin {"unused", "accepted", "noaddr"}

SentTokens(c) == SplitWhitespace(client[c].line)

\* the positions of the header lines the client sent under the given name
SentNamed(cl, name) ==
  {i \in 1..Len(cl.hdrs) : Find(cl.hdrs[i][2], ":", 1) > 0 /\ Trim(cl.hdrs[i][1]) = name}

\* the value of the last header line sent under the name
SentValue(cl, name) ==
  Trim(cl.hdrs[CHOOSE i \in SentNamed(cl, name) : \A j \in SentNamed(cl, name) : j <= i][3])

BadLine(cl) == ~ValidUtf8(cl.line) \/ Len(SplitWhitespace(cl.line)) # 3

BadMethod(cl) ==
  /\ ~BadLine(cl)
  /\ SplitWhitespace(cl.line)[1] \notin {"GET", "POST", "PUT", "DELETE"}

BadHeaderBytes(cl) == \E i \in 1..Len(cl.hdrs) : ~ValidUtf8(HdrLine(cl.hdrs[i]))

Declares(cl) == SentNamed(cl, "Content-Length") # {}

BadLength(cl) == Declares(cl) /\ ~ParseUsize(SentValue(cl, "Content-Length")).ok

Declared(cl) == ParseUsize(SentValue(cl, "Content-Length")).val

ShortBody(cl) == Declares(cl) /\ ~BadLength(cl) /\ Len(cl.tail) < Declared(cl)

NonTextBody(cl) ==
  /\ Declares(cl) /\ ~BadLength(cl) /\ ~ShortBody(cl)
  /\ ~ValidUtf8(SubSeq(cl.tail, 1, Declared(cl)))

Malformed(cl) ==
  \/ BadLine(cl)
  \/ BadMethod(cl)
  \/ BadHeaderBytes(cl)
  \/ BadLength(cl)
  \/ ShortBody(cl)
  \/ NonTextBody(cl)

(***************************************************************************)
(* C8.  A request whose first line, split on whitespace, has not exactly 3 *)
(* tokens is rejected with "Invalid request line" when only that line has  *)
(* been consumed: no header is stored, http_server_response is not called  *)
(* and nothing is written.                                                 *)
(***************************************************************************)
C8_RequestLineRejected ==
  \A c \in Conns :
    (Handled(c) /\ ValidUtf8(client[c].line) /\ Len(SentTokens(c)) # 3) =>
      /\ pc[c] = "aborted"
      /\ perr[c] = "Invalid request line"
      /\ consumed[c] = Len(client[c].line \o client[c].eol)
      /\ req[c] = NewRequest
      /\ resp[c] = NoResponse
      /\ wire[c] = ""

\* a request line of four tokens, followed by a header, has been rejected
C8_Witness ==
  \E c \in Conns :
    /\ pc[c] = "aborted"
    /\ client[c].line = "GET / HTTP/1.1 extra"
    /\ client[c].hdrs # << >>
    /\ consumed[c] = 22
    /\ consumed[c] < Len(Wire(client[c]))

(***************************************************************************)
(* C9.  A request line of 3 tokens whose first token is not exactly GET,   *)
(* POST, PUT or DELETE is rejected as an invalid method and is never       *)
(* routed; every request that is routed has the method the client sent,    *)
(* one of GET, POST, PUT, DELETE.                                          *)
(***************************************************************************)
C9_UnknownMethodRejected ==
  \A c \in Conns :
    /\ (Handled(c) /\ BadMethod(client[c])) =>
         /\ pc[c] = "aborted"
         /\ perr[c] = "Invalid HTTP method: " \o SentTokens(c)[1]
         /\ resp[c] = NoResponse
         /\ wire[c] = ""
    /\ pc[c] \in {"parsed", "created", "routed", "sent", "dropped"} =>
         /\ req[c].method \in {"GET", "POST", "PUT", "DELETE"}
         /\ req[c].method = SentTokens(c)[1]

\* PATCH and a lower-case get have been rejected
C9_Witness ==
  \E c \in Conns :
    /\ pc[c] = "aborted"
    /\ perr[c] \in {"Invalid HTTP method: PATCH", "Invalid HTTP method: get"}
    /\ Len(SentTokens(c)) = 3

(***************************************************************************)
(* C10.  Every parse failure (bad request line, unknown method, a header   *)
(* line that is not text, a Content-Length that does not parse as an       *)
(* unsigned integer, fewer body bytes than declared, a body that is not    *)
(* text) aborts the connection: no byte is written to the socket, no       *)
(* response is built and the thread creates or truncates no file.          *)
(***************************************************************************)
C10_ParseFailureNoEffect ==
  \A c \in Conns :
    /\ (Handled(c) /\ Malformed(client[c])) => pc[c] \in {"aborted", "oom"}
    /\ pc[c] \in {"aborted", "oom"} =>
         /\ (pc[c] = "aborted" => perr[c] # "")
         /\ resp[c] = NoResponse
         /\ wire[c] = ""
         /\ touched[c] = {}
         /\ (\A d \in Conns \ {c} : touched[d] = {}) =>
              \E f \in InitialFiles : fs = f

\* a POST with a truncated body has been aborted and the file it names is intact
C10_Witness ==
  \E c \in Conns :
    /\ pc[c] = "aborted"
    /\ perr[c] \in {"Error reading body", "Error parsing body as UTF-8"}
    /\ SentTokens(c) = << "POST", "/files/f", "HTTP/1.1" >>
    /\ \A d \in Conns : touched[d] = {}
    /\ "./f" \in DOMAIN fs /\ fs["./f"] = "old!"

(***************************************************************************)
(* C11.  POST on the file route.  When File::create succeeded the response *)
(* is 201 Created, also when write_all failed: the status is 201 all the   *)
(* same and the body carries the write-failure message, while after a      *)
(* complete write the body is empty.  When File::create failed the         *)
(* response is 500 Internal Server Error with a non-empty body describing  *)
(* the error.  A POST whose request has no body leaves the file empty.     *)
(***************************************************************************)
C11_PostStatus ==
  \A c \in Conns :
    (Routed(c) /\ IsFilePost(req[c])) =>
      LET p == FilePath(req[c].path)
          content == FileContent(req[c])
      IN IF p \in touched[c]
         THEN /\ resp[c].status_code = 201
              /\ resp[c].status_msg = "Created"
              /\ fs[p] = content => resp[c].body = ""
              /\ fs[p] # content =>
                   /\ StartsWith(resp[c].body, "Failed to write to file: ")
                   /\ Len(resp[c].body) > Len("Failed to write to file: ")
              /\ ~req[c].body.some => fs[p] = ""
              /\ Answered(c) =>
                   ParseWire(wire[c]).status = req[c].version \o " 201 Created"
         ELSE /\ resp[c].status_code = 500
              /\ resp[c].status_msg = "Internal Server Error"
              /\ StartsWith(resp[c].body, "Error creating file: ")
              /\ Len(resp[c].body) > Len("Error creating file: ")
              /\ fs \in InitialFiles
              /\ Answered(c) =>
                   ParseWire(wire[c]).status
                     = req[c].version \o " 500 Internal Server Error"

\* a POST of "ab" answered 201 Created although write_all stored one byte only
C11_Witness ==
  \E c \in Conns :
    /\ Answered(c)
    /\ IsFilePost(req[c])
    /\ req[c].body = Some("ab")
    /\ fs[FilePath(req[c].path)] = "a"
    /\ resp[c].status_code = 201
    /\ StartsWith(resp[c].body, "Failed to write to file: ")

(***************************************************************************)
(* C12.  On the file route a request whose method is neither GET nor POST  *)
(* (PUT, DELETE) is answered 405 Method Not Allowed with an empty text     *)
(* body, and the step that answers it reads no file and leaves every file  *)
(* as it is; the status line sent says 405 Method Not Allowed.             *)
(***************************************************************************)
OtherOnFiles(request) ==
  is_file_endpoint(request.path) /\ request.method \notin {"GET", "POST"}

\* C12: the step answering PUT or DELETE on the file route gives 405 with
\* an empty text body and touches no file
C12_OtherMethods405 ==
  [][\A c \in Conns :
       /\ (pc[c] = "parsed" /\ OtherOnFiles(req[c]) /\ pc'[c] # "parsed") =>
            /\ pc'[c] = "routed"
            /\ resp'[c].status_code = 405
            /\ resp'[c].status_msg = "Method Not Allowed"
            /\ resp'[c].body = ""
            /\ fs' = fs
            /\ touched'[c] = {}
            /\ ~fread'[c].done
       /\ (pc[c] = "routed" /\ OtherOnFiles(req[c]) /\ pc'[c] = "sent") =>
            /\ ParseWire(wire'[c]).status
                 = req[c].version \o " 405 Method Not Allowed"
            /\ fs' = fs
            /\ touched'[c] = {}]_vars

\* a DELETE of an existing file has been answered 405 and the file is there
C12_Witness ==
  \E c \in Conns :
    /\ Answered(c)
    /\ req[c].method = "DELETE"
    /\ req[c].path = "/files/f"
    /\ resp[c].status_code = 405
    /\ "./f" \in DOMAIN fs /\ fs["./f"] = "old!"

(***************************************************************************)
(* C13.  Connection isolation.  Whatever the other connections send, and   *)
(* also when their requests are malformed or their handling fails, the     *)
(* thread of a connection is never stopped by another connection, and the  *)
(* response of a connection is determined by its own request bytes and by  *)
(* the file content it read (for a POST: by whether its own create and     *)
(* write succeeded).                                                       *)
(***************************************************************************)
\* the response determined by the request bytes of c and by what c observed
OwnResponses(c) ==
  LET r == parse_request(Wire(client[c])).request IN
  IF IsFilePost(r)
  THEN {Finalize(r, FileCreateFailed(DefaultResponse(r))),
        Finalize(r, FilePosted(DefaultResponse(r), TRUE)),
        Finalize(r, FilePosted(DefaultResponse(r), FALSE))}
  ELSE {http_server_response(r, [ok |-> fread[c].ok, data |-> fread[c].data])}

C13_NotStopped == \A c \in Conns : pc[c] # "killed"

C13_OwnResponse ==
  \A c \in Conns :
    /\ Routed(c) => resp[c] \in OwnResponses(c)
    /\ Answered(c) =>
         \E order \in Orders(DOMAIN resp[c].headers) : wire[c] = to_vec(resp[c], order)

\* C13: no thread is stopped by another connection, and every response is
\* the one its own request and its own observations determine
C13_ConnectionIsolation == C13_NotStopped /\ C13_OwnResponse

(***************************************************************************)
(* C14.  A POST on the file route is not atomic: File::create and          *)
(* write_all are separate steps and nothing locks the file between them.   *)
(* While a POST stands between the two, a GET of the same name on another  *)
(* connection can run and is answered 200 with the empty content; another  *)
(* POST of the same name can create and write.  Two POSTs of the same name *)
(* that both wrote completely leave one of their bodies or one body laid   *)
(* over the front of the other.                                            *)
(***************************************************************************)
\* the bytes of x written over the front of y
Overlay(x, y) == x \o SubSeq(y, Len(x) + 1, Len(y))

\* c and d are different connections whose requests name the same file
SameFile(c, d) == c # d /\ FilePath(req[c].path) = FilePath(req[d].path)

\* the POST of c has created the file and written all of its body
WroteAll(c) == Routed(c) /\ IsFilePost(req[c]) /\ touched[c] # {} /\ resp[c].body = ""

\* C14: between create and write of a POST the file is open to the other
\* connections, and concurrent POSTs can leave a mix of their bodies
C14_PostNotAtomic ==
  \A c, d \in Conns :
    /\ (SameFile(c, d) /\ pc[c] = "created" /\ pc[d] = "parsed" /\ ReadsFile(req[d])) =>
         /\ ENABLED Respond(d)
         /\ LET r == http_server_response(req[d], fs_read(fs, FilePath(req[d].path)))
            IN r.status_code = 200 /\ r.body = ""
    /\ (SameFile(c, d) /\ pc[c] = "created" /\ pc[d] = "parsed" /\ IsFilePost(req[d])) =>
         ENABLED PostCreate(d)
    /\ (SameFile(c, d) /\ pc[c] = "created" /\ pc[d] = "created") =>
         ENABLED PostWrite(c) /\ ENABLED PostWrite(d)
    /\ (SameFile(c, d) /\ WroteAll(c) /\ WroteAll(d)) =>
         LET x == FileContent(req[c])
             y == FileContent(req[d])
         IN fs[FilePath(req[c].path)] \in {x, y, Overlay(x, y), Overlay(y, x)}

\* a GET that overlapped a POST of "ab" was answered 200 with no content, which
\* no initial file holds; the POST then wrote all of its body
C14_Witness ==
  \E c, d \in Conns :
    /\ SameFile(c, d)
    /\ WroteAll(c)
    /\ req[c].body = Some("ab")
    /\ fs[FilePath(req[c].path)] = "ab"
    /\ Answered(d)
    /\ ReadsFile(req[d])
    /\ d \notin doneBefore[c]
    /\ c \notin doneBefore[d]
    /\ resp[d].status_code = 200
    /\ ParseWire(wire[d]).body = ""

\* two POSTs, of "ab" and of "xyz", both written completely, have left "abz"
C14_TwoPosts ==
  \E c, d \in Conns :
    /\ SameFile(c, d)
    /\ WroteAll(c) /\ FileContent(req[c]) = "ab"
    /\ WroteAll(d) /\ FileContent(req[d]) = "xyz"
    /\ fs[FilePath(req[c].path)] = "abz"

(***************************************************************************)
(* C15.  One request-response cycle per connection.  Bytes are written to  *)
(* a socket once only, by a thread that has parsed its request completely  *)
(* and routed it; what is written is one response, the one to the first    *)
(* request of the stream, whatever follows that request; and the thread of *)
(* a client that delivered a complete well-formed request is not ended     *)
(* before it has issued the write of its response.                         *)
(***************************************************************************)
\* the client delivers a request line of three tokens with a known method,
\* header lines of text, the blank line, and the body it declares
WellFormed(cl) == cl.term /\ ~Malformed(cl)

\* the bytes on the socket of c are one whole response, that of resp[c]
OneResponse(c) ==
  LET w == ParseWire(wire[c]) IN
  /\ w.complete
  /\ w.status \o "\r\n" = StatusLine(resp[c])
  /\ WireValues(w.headers, "Content-Length") # {}
  /\ Len(w.body) = ParseUsize(WireValue(w.headers, "Content-Length")).val
  /\ w.body = ActiveBody(resp[c])

\* what is on a socket was written by a thread that parsed and routed the
\* first request of the stream, and a whole response is one response
C15_Written(c) ==
  /\ wire[c] # "" =>
       /\ pc[c] \in {"sent", "dropped"}
       /\ perr[c] = "" /\ resp[c] # NoResponse
       /\ req[c].path = SentTokens(c)[2]
  /\ Answered(c) => OneResponse(c)

\* the socket is written once, by the step that ends the thread
C15_Once(c) ==
  /\ wire'[c] # wire[c] => wire[c] = "" /\ pc[c] = "routed"
  /\ pc[c] \in {"sent", "dropped"} => pc'[c] = pc[c] /\ wire'[c] = wire[c]

\* the thread serving a well-formed request is not ended before its write
C15_Served(c) ==
  WellFormed(client[c]) => pc[c] \notin {"aborted", "oom", "killed"}

\* C15: one write per connection, after parsing and routing, of one response
\* to the first request; a well-formed request always gets to that write
C15_OneCycle ==
  /\ [](\A c \in Conns : C15_Written(c) /\ C15_Served(c))
  /\ [][\A c \in Conns : C15_Once(c)]_vars

(***************************************************************************)
(* C16.  Header parsing.  The header lines are the lines the client sent   *)
(* before the first empty line (or the end of the stream).  Each of them   *)
(* that holds a colon is split at its first colon into a name and a value, *)
(* both trimmed; a line without colon stores nothing.  The map holds       *)
(* exactly the names so obtained, each with the value of the last line     *)
(* sent under that name; nothing after the empty line is stored.           *)
(***************************************************************************)
\* the header lines the client sent before the first empty line
SentHeaderLines(cl) ==
  LET stop == {i \in 1..Len(cl.hdrs) : HdrLine(cl.hdrs[i]) = ""}
      n == IF stop = {} THEN Len(cl.hdrs)
           ELSE (CHOOSE i \in stop : \A j \in stop : i <= j) - 1
  IN [i \in 1..n |-> HdrLine(cl.hdrs[i])]

HasColon(line) == \E j \in 1..Len(line) : Ch(line, j) = ":"

FirstColon(line) ==
  CHOOSE j \in 1..Len(line) :
    Ch(line, j) = ":" /\ \A i \in 1..(j - 1) : Ch(line, i) # ":"

NameOf(line) == Trim(SubSeq(line, 1, FirstColon(line) - 1))

ValueOf(line) == Trim(SubSeq(line, FirstColon(line) + 1, Len(line)))

\* the thread of c holds a successfully parsed request
Parsed(c) == pc[c] \in {"parsed", "created", "routed", "sent", "dropped"}

\* C16: the header map is the last-wins map of the trimmed name and value of
\* the lines, before the first empty one, that hold a colon
C16_HeaderParsing ==
  \A c \in Conns :
    Parsed(c) =>
      LET lines == SentHeaderLines(client[c])
          split == {i \in 1..Len(lines) : HasColon(lines[i])}
      IN /\ DOMAIN req[c].headers = {NameOf(lines[i]) : i \in split}
         /\ \A i \in split :
              (\A j \in split : j > i => NameOf(lines[j]) # NameOf(lines[i])) =>
                req[c].headers[NameOf(lines[i])] = ValueOf(lines[i])

\* a value holding a colon is stored whole and reflected by /user-agent
C16_Witness ==
  \E c \in Conns :
    /\ Answered(c)
    /\ client[c].hdrs = << << "User-Agent", ":", "a:b" >> >>
    /\ req[c].headers = [k \in {"User-Agent"} |-> "a:b"]
    /\ resp[c].body = "a:b"

(***************************************************************************)
(* C17.  Content-Length framing of the request.  After a successful parse  *)
(* the body is present exactly when a header line named Content-Length was *)
(* sent before the blank line; it then holds as many bytes as the last     *)
(* such line declares, the first bytes sent after the blank line, so that  *)
(* a declared 0 gives a present empty body.  Without such a line the body  *)
(* is absent and parsing consumed nothing beyond the blank line, whatever  *)
(* the client sent after it.                                               *)
(***************************************************************************)
\* the number of bytes the client sent up to and including the first empty
\* line, or up to the end of the stream when it sent none
HeaderEnd(cl) ==
  LET stop == {i \in 1..Len(cl.hdrs) : HdrLine(cl.hdrs[i]) = ""} IN
  IF stop # {}
  THEN Len(cl.line \o cl.eol
             \o HdrBlock(SubSeq(cl.hdrs, 1, CHOOSE i \in stop : \A j \in stop : i <= j),
                         cl.eol))
  ELSE Len(Wire(cl)) - Len(cl.tail)

\* the header lines named Content-Length, among lines
LengthLines(lines) ==
  {i \in 1..Len(lines) : HasColon(lines[i]) /\ NameOf(lines[i]) = "Content-Length"}

\* C17: the body is present iff Content-Length was sent, and is then exactly
\* the declared number of bytes that follow the blank line
C17_ContentLengthFraming ==
  \A c \in Conns :
    Parsed(c) =>
      LET cl == client[c]
          lines == SentHeaderLines(cl)
          named == LengthLines(lines)
      IN /\ req[c].body.some <=> named # {}
         /\ named # {} =>
              LET last == CHOOSE i \in named : \A j \in named : j <= i
                  n == ParseUsize(ValueOf(lines[last])).val
              IN /\ Len(req[c].body.val) = n
                 /\ req[c].body.val = SubSeq(Wire(cl), HeaderEnd(cl) + 1, HeaderEnd(cl) + n)
                 /\ consumed[c] = HeaderEnd(cl) + n
         /\ named = {} =>
              /\ req[c].body = None
              /\ consumed[c] = HeaderEnd(cl)

\* Content-Length: 0 followed by two bytes: the body is present and empty and
\* the two bytes are left unread
C17_Witness ==
  \E c \in Conns :
    /\ Parsed(c)
    /\ client[c].hdrs = << Hdr("Content-Length", "0") >>
    /\ client[c].tail = "ab"
    /\ req[c].body = Some("")
    /\ req[c].body # None
    /\ consumed[c] = Len(Wire(client[c])) - 2

(***************************************************************************)
(* C18.  Header lookups are case-sensitive.  When the client sends the     *)
(* name User-Agent, Content-Length or Accept-Encoding in another           *)
(* capitalization only, the header is stored under the capitalization sent *)
(* and the request is handled as if it were absent: /user-agent answers    *)
(* 404, no body is read, the response is not compressed.                   *)
(***************************************************************************)
\* the names of the header lines the client sent before the blank line
SentNames(cl) ==
  LET lines == SentHeaderLines(cl) IN
  {NameOf(lines[i]) : i \in {j \in 1..Len(lines) : HasColon(lines[j])}}

\* the capitalizations of name among names, when name itself is not there;
\* lowered is name in lower case
OtherCase(names, name, lowered) ==
  IF name \in names THEN {} ELSE {k \in names : Lower(k) = lowered}

\* C18: a header sent in another capitalization only is stored as sent and
\* is not found by the lookups
C18_CaseSensitiveLookups ==
  \A c \in Conns :
    Parsed(c) =>
      LET names == SentNames(client[c])
          agent == OtherCase(names, "User-Agent", "user-agent")
          length == OtherCase(names, "Content-Length", "content-length")
          accept == OtherCase(names, "Accept-Encoding", "accept-encoding")
      IN /\ agent # {} =>
              agent \subseteq DOMAIN req[c].headers /\ ~Has(req[c].headers, "User-Agent")
         /\ length # {} =>
              /\ length \subseteq DOMAIN req[c].headers
              /\ ~Has(req[c].headers, "Content-Length")
              /\ req[c].body = None
              /\ consumed[c] = HeaderEnd(client[c])
         /\ accept # {} =>
              /\ accept \subseteq DOMAIN req[c].headers
              /\ ~Has(req[c].headers, "Accept-Encoding")
         /\ (agent # {} /\ Routed(c)
               /\ is_agent_endpoint(req[c].path) /\ ~is_echo_endpoint(req[c].path)) =>
              /\ resp[c].status_code = 404
              /\ resp[c].body = ""
              /\ Answered(c) =>
                   ParseWire(wire[c]).status
                     = req[c].version \o " 404 User-Agent header not found"
         /\ (accept # {} /\ Routed(c)) =>
              /\ ~resp[c].is_encoded
              /\ ~Has(resp[c].headers, "Content-Encoding")
              /\ Answered(c) => ParseWire(wire[c]).body = resp[c].body

\* user-agent and accept-encoding in lower case: /user-agent answered 404,
\* not compressed, both headers in the map
C18_Witness ==
  \E c \in Conns :
    /\ Answered(c)
    /\ req[c].path = "/user-agent"
    /\ req[c].headers = [k \in {"user-agent", "accept-encoding"} |->
                           IF k = "user-agent" THEN "curl/8" ELSE "gzip"]
    /\ resp[c].status_code = 404
    /\ ParseWire(wire[c]).body = ""

(***************************************************************************)
(* C19.  Filesystem frame.  In every interleaving, a step that changes the *)
(* files is a step of a thread whose request parsed successfully, has      *)
(* method POST and a path starting with "/files", and it changes at most   *)
(* the one file at <directory>/<path with the prefix "/files/" stripped>:  *)
(* every other file exists before and after with the same content.  So no  *)
(* request to /, /echo, /user-agent or an unknown path, and no GET, PUT or *)
(* DELETE, changes a file.                                                 *)
(***************************************************************************)
\* the one file the claim lets a POST of the path change
FileOfPath(path) == Normalize(Directory \o "/" \o StripPrefixOnce(path, "/files/"))

\* files and after differ in the file p at most
SameBut(files, after, p) ==
  \A q \in (DOMAIN files \cup DOMAIN after) \ {p} :
    q \in DOMAIN files /\ q \in DOMAIN after /\ files[q] = after[q]

\* C19: only a parsed POST under /files changes the files, and only its file
C19_FilesystemFrame ==
  [][fs' # fs =>
       \E c \in Conns :
         /\ pc'[c] # pc[c]
         /\ pc[c] \in {"parsed", "created"}
         /\ perr[c] = ""
         /\ req[c].method = "POST"
         /\ StartsWith(req[c].path, "/files")
         /\ SameBut(fs, fs', FileOfPath(req[c].path))]_vars

====
